---------------------------- MODULE Spec2Model ----------------------------
(***************************************************************************)
(* shmap: a key/value store over POSIX shared-memory segments in /dev/shm. *)
(*                                                                         *)
(* The model follows src/src/map.rs and src/src/shm.rs one system call at  *)
(* a time.  The shared namespace is a directory of names bound to inodes;  *)
(* a value segment, its metadata segment and the key's lock file are three *)
(* entries of it.  A named lock is an flock on the inode its lock file     *)
(* named when the lock was opened.  Every process runs one public          *)
(* operation at a time; an operation is a chain of calls of _get, _insert  *)
(* and _remove, each a few steps long.                                     *)
(***************************************************************************)
EXTENDS Integers, Sequences, FiniteSets, TLC

VARIABLES
    now,     \* the wall clock (Utc::now, SystemTime::now), in seconds
    dir,     \* /dev/shm: name -> inode number, 0 when the name is absent
    ino,     \* inode number -> [bytes, mtime]
    cipher,  \* per process: the key of its Shmap handle, 0 for Shmap::new()
    proc,    \* per process: the call it is in and that call's locals
    last,    \* per key: the last completed insert or remove (history)
    used,    \* the cipher keys of the handles that ran a step (history)
    passed,  \* per key: the values given to the insert calls so far (history)
    own,     \* per process: the keys it inserted with success (history)
    cleaned, \* the keys a sweep went over since their last insert or remove
             \* (history)
    replaced, \* per key: the completed insert or remove before the last one
             \* (history)
    calls,   \* the number of calls started so far (history)
    snap,    \* the namespace and clock when the running call began (history)
    tracing  \* the names of the history variables that are recorded

vars ==
    <<now, dir, ino, cipher, proc, last, used, passed, own, cleaned, replaced,
      calls, snap, tracing>>

---------------------------------------------------------------------------
(* Bounds of the model *)

MaxTime == 4        \* the clock of the expiration runs stops here
SweepMaxTime == 6   \* the clock of the sweep runs stops here
MaxTtl == 2         \* TTLs are 1..MaxTtl seconds

Procs == {1, 2}
Keys == {<<5>>, <<6>>}                 \* logical keys (strings)
Values == {<<1>>, <<2, 3>>}            \* values of type String
RawValues == {<<>>, <<4>>}             \* byte slices given to insert_raw
EncKeys == {1, 2}                      \* AES-256 keys of encrypted handles
Ciphers == {0} \cup EncKeys
FirstNonce == <<0, 1, 2, 3, 4, 5, 6, 7, 8, 9, 10, 11>>
SecondNonce == <<2, 8, 9, 0, 1, 3, 4, 5, 6, 7, 10, 11>>
Nonces == {FirstNonce, SecondNonce}    \* shuffles of 0..11

(* Program constants *)

GraceSecs == 5      \* Duration::from_secs(5), the sweep's grace window
NonceLen == 12      \* the nonce is the first 12 bytes of a sealed segment
DateLen == 20       \* length of a serialized DateTime<Utc>
METADATA_SUFFIX == "metadata"
LOCK_SUFFIX == "lock"
SHMAP_PREFIX == "shmap"

NoExp == -1         \* expiration: None
NoTtl == -1         \* ttl: None

---------------------------------------------------------------------------
(* Names *)

Sha224(key) == <<SHMAP_PREFIX, key>>

sanitize_key(key) == [hash |-> Sha224(key), sfx |-> ""]

sanitize_metadata_key(key) == [hash |-> Sha224(key), sfx |-> METADATA_SUFFIX]

\* format!("{}.{}", filename, METADATA_SUFFIX) of a value entry's name
MetadataFilename(name) == [hash |-> name.hash, sfx |-> METADATA_SUFFIX]

\* trim_end_matches(".metadata") of a metadata entry's name
ItemFilename(name) == [hash |-> name.hash, sfx |-> ""]

\* sanitized_key.trim_end_matches(".metadata") + "." + LOCK_SUFFIX
\* faulty variant: one lock file for all the keys
LockPathShared(name) ==
    [hash |-> Sha224(CHOOSE k \in Keys : TRUE), sfx |-> LOCK_SUFFIX]

LockPath(name) == [hash |-> name.hash, sfx |-> LOCK_SUFFIX]

Names == {[hash |-> Sha224(k), sfx |-> s] :
             k \in Keys, s \in {"", METADATA_SUFFIX, LOCK_SUFFIX}}

NoName == [hash |-> <<>>, sfx |-> ""]
NoKey == <<>>

---------------------------------------------------------------------------
(* bincode: the standard configuration, one byte per small integer *)

Zeros(n) == [i \in 1..n |-> 0]

EncodeString(s) == <<Len(s)>> \o s

\* decode_from_slice reads a prefix of the slice and ignores what follows
DecodeString(b) ==
    IF Len(b) = 0 \/ b[1] > Len(b) - 1
    THEN [ok |-> FALSE, v |-> <<>>, rest |-> <<>>]
    ELSE [ok |-> TRUE, v |-> SubSeq(b, 2, 1 + b[1]),
          rest |-> SubSeq(b, 2 + b[1], Len(b))]

\* chrono writes a DateTime as a string; its first character carries the
\* instant here and the others are the letter Z
DateFill == 90
EncodeDate(t) == EncodeString(<<t>> \o [i \in 1..(DateLen - 1) |-> DateFill])

\* the element of a set of one element: a decoded part is worked out once,
\* whatever the number of places that read it
The(S) == CHOOSE x \in S : TRUE

DecodeDate(b) ==
    The({IF s.ok /\ Len(s.v) = DateLen /\ \A i \in 2..DateLen : s.v[i] = DateFill
         THEN [ok |-> TRUE, v |-> s.v[1], rest |-> s.rest]
         ELSE [ok |-> FALSE, v |-> NoExp, rest |-> <<>>] :
         s \in {DecodeString(b)}})

EncodeMetadata(md) ==
    EncodeString(md.key)
    \o (IF md.expiration = NoExp THEN <<0>> ELSE <<1>> \o EncodeDate(md.expiration))
    \o (IF md.encrypted THEN <<1>> ELSE <<0>>)

BadMetadata == [ok |-> FALSE, key |-> <<>>, expiration |-> NoExp, encrypted |-> FALSE]

\* Option<DateTime>: a tag byte, and the date when the tag is 1
DecodeExpiration(b) ==
    IF b[1] = 0 THEN [ok |-> TRUE, v |-> NoExp, rest |-> Tail(b)]
    ELSE DecodeDate(Tail(b))

DecodeMetadata(b) ==
    The({IF ~k.ok \/ Len(k.rest) = 0 \/ k.rest[1] \notin {0, 1} THEN BadMetadata
         ELSE The({IF ~e.ok \/ Len(e.rest) = 0 \/ e.rest[1] \notin {0, 1}
                   THEN BadMetadata
                   ELSE [ok |-> TRUE, key |-> k.v, expiration |-> e.v,
                         encrypted |-> (e.rest[1] = 1)] :
                   e \in {DecodeExpiration(k.rest)}}) :
         k \in {DecodeString(b)}})

---------------------------------------------------------------------------
(* AES-256-GCM: nonce, ciphertext, authentication tag (one byte here) *)

RECURSIVE SumSeq(_)
SumSeq(s) == IF s = <<>> THEN 0 ELSE s[1] + SumSeq(Tail(s))

KeyStream(c, nonce) == (c * 16 + nonce[1] + 1) % 256

\* the tag of a ciphertext under key c; two keys never give one tag
Mac(c, nonce, ct) == 1 + ((c * 97 + SumSeq(ct) + nonce[2]) % 255)

Encrypt(c, nonce, pt) ==
    LET ct == [i \in 1..Len(pt) |-> (pt[i] + KeyStream(c, nonce)) % 256]
    IN  ct \o <<Mac(c, nonce, ct)>>

Decrypt(c, nonce, body) ==
    IF Len(body) = 0 THEN [ok |-> FALSE, v |-> <<>>]
    ELSE LET ct == SubSeq(body, 1, Len(body) - 1) IN
         IF body[Len(body)] # Mac(c, nonce, ct) THEN [ok |-> FALSE, v |-> <<>>]
         ELSE [ok |-> TRUE,
               v |-> [i \in 1..Len(ct) |-> (ct[i] + 256 - KeyStream(c, nonce)) % 256]]

\* faulty variant: the nonce is not put in front of the ciphertext
SealBytesNoNonce(c, nonce, value) ==
    IF c # 0 THEN Encrypt(c, nonce, value) ELSE value

\* _insert, lines 226-234: the bytes that go to the segment
SealBytes(c, nonce, value) ==
    IF c # 0 THEN nonce \o Encrypt(c, nonce, value) ELSE value

\* faulty variant: a failed decryption is taken for a missing item
OpenBytesLenient(c, mmap) ==
    IF c # 0
    THEN IF Len(mmap) < NonceLen
         THEN [t |-> "none", v |-> <<>>, e |-> ""]
         ELSE LET d == Decrypt(c, SubSeq(mmap, 1, NonceLen),
                               SubSeq(mmap, NonceLen + 1, Len(mmap))) IN
              IF d.ok THEN [t |-> "some", v |-> d.v, e |-> ""]
              ELSE [t |-> "none", v |-> <<>>, e |-> ""]
    ELSE [t |-> "some", v |-> mmap, e |-> ""]

\* _get, lines 154-170: what a read makes of a non-empty mapping
OpenBytes(c, mmap) ==
    IF c # 0
    THEN IF Len(mmap) < NonceLen
         THEN [t |-> "none", v |-> <<>>, e |-> ""]
         ELSE LET d == Decrypt(c, SubSeq(mmap, 1, NonceLen),
                               SubSeq(mmap, NonceLen + 1, Len(mmap))) IN
              IF d.ok THEN [t |-> "some", v |-> d.v, e |-> ""]
              ELSE [t |-> "err", v |-> <<>>, e |-> "aead"]
    ELSE [t |-> "some", v |-> mmap, e |-> ""]

---------------------------------------------------------------------------
(* The shared namespace and the processes *)

Inodes == 1..(Cardinality(Names) + 2 * Cardinality(Procs))

Blank == [bytes |-> <<>>, mtime |-> 0]

NoRes == [t |-> "", v |-> <<>>, e |-> "", ks |-> {}]
OkUnit == [t |-> "unit", v |-> <<>>, e |-> "", ks |-> {}]
OkNone == [t |-> "none", v |-> <<>>, e |-> "", ks |-> {}]
OkSome(x) == [t |-> "some", v |-> x, e |-> "", ks |-> {}]
OkKeys(s) == [t |-> "keys", v |-> <<>>, e |-> "", ks |-> s]
Err(x) == [t |-> "err", v |-> <<>>, e |-> x, ks |-> {}]

IdleProc ==
    [pc |-> "idle", op |-> "none", key |-> NoKey, val |-> <<>>, ttl |-> NoTtl,
     exp |-> NoExp, nonce |-> FirstNonce, fail |-> {}, wfail |-> {},
     name |-> NoName, stack |-> <<>>, wbytes |-> <<>>,
     lk |-> 0, held |-> FALSE, fd |-> 0, leak |-> {},
     todo |-> {}, cur |-> NoName, age |-> 0, keys |-> {},
     res |-> NoRes]

NoLast == [op |-> "none", val |-> <<>>, cipher |-> 0, exp |-> NoExp, ok |-> FALSE]

Referenced(i, d, pr) ==
    \/ \E n \in Names : d[n] = i
    \/ \E p \in Procs : pr[p].lk = i \/ pr[p].fd = i \/ i \in pr[p].leak

\* an inode nobody names or holds open is freed
Reclaim(d, pr, in) ==
    [i \in Inodes |-> IF Referenced(i, d, pr) THEN in[i] ELSE Blank]

FreshIno ==
    CHOOSE i \in Inodes :
        /\ ~Referenced(i, dir, proc)
        /\ \A j \in Inodes : j < i => Referenced(j, dir, proc)

\* the summary of a completed insert or remove
Summary(pr, c) ==
    [op |-> pr.op, val |-> pr.val, cipher |-> c, exp |-> pr.exp,
     ok |-> (pr.res.t # "err")]

Mutating ==
    {"insert", "insert_with_ttl", "insert_raw", "insert_raw_with_ttl", "remove"}
Inserting == {"insert", "insert_with_ttl"}

\* one step of process p: its new locals, the new directory and inodes.  The
\* locals are worked out once, whatever the number of places that read them.
Step(p, locals, d, in) ==
    \E pr \in {locals} :
        /\ proc' = [proc EXCEPT ![p] = pr]
        /\ dir' = d
        /\ ino' = Reclaim(d, [proc EXCEPT ![p] = pr], in)
        /\ last' = IF "last" \in tracing /\ pr.pc = "done" /\ pr.op \in Mutating
                   THEN [last EXCEPT ![pr.key] = Summary(pr, cipher[p])]
                   ELSE last
        /\ snap' = IF "snap" \in tracing /\ proc[p].pc \in {"idle", "done"}
                   THEN [dir |-> dir, ino |-> ino, now |-> now]
                   ELSE snap
        /\ used' = IF "used" \in tracing THEN used \cup {cipher[p]} ELSE used
        /\ passed' = IF /\ "passed" \in tracing
                        /\ proc[p].pc \in {"idle", "done"}
                        /\ pr.op \in Inserting
                     THEN [passed EXCEPT ![pr.key] = @ \cup {pr.val}]
                     ELSE passed
        /\ own' = IF /\ "own" \in tracing
                     /\ pr.pc = "done"
                     /\ pr.op \in Inserting
                     /\ pr.res.t # "err"
                  THEN [own EXCEPT ![p] = @ \cup {pr.key}]
                  ELSE own
        /\ replaced' = IF /\ "replaced" \in tracing
                          /\ pr.pc = "done"
                          /\ pr.op \in Mutating
                       THEN [replaced EXCEPT ![pr.key] = last[pr.key]]
                       ELSE replaced
        /\ calls' = IF "calls" \in tracing /\ proc[p].pc \in {"idle", "done"}
                    THEN calls + 1
                    ELSE calls
        /\ cleaned' = IF "cleaned" \notin tracing \/ pr.pc # "done" THEN cleaned
                      ELSE IF pr.op \in {"clean", "new"} THEN Keys
                      ELSE IF pr.op \in Mutating THEN cleaned \ {pr.key}
                      ELSE cleaned
        /\ UNCHANGED tracing

---------------------------------------------------------------------------
(* Calls and returns *)

Call_get(pr, name, cont) ==
    [pr EXCEPT !.pc = "g_path", !.name = name, !.stack = <<cont>> \o @]

Call_insert(pr, name, bytes, cont) ==
    [pr EXCEPT !.pc = "i_path", !.name = name, !.wbytes = bytes,
               !.stack = <<cont>> \o @]

\* _remove, line 276: a lock file is unlinked without taking any lock
Call_remove(pr, name, cont) ==
    [pr EXCEPT !.pc = IF name.sfx = LOCK_SUFFIX THEN "r_unlink" ELSE "r_path",
               !.name = name, !.stack = <<cont>> \o @]

Done(pr, r) ==
    [pr EXCEPT !.pc = "done", !.res = r, !.stack = <<>>, !.name = NoName,
               !.wbytes = <<>>, !.cur = NoName, !.age = 0, !.todo = {}]

\* chrono::Duration::from_std (metadata.rs 22-23): a std Duration above
\* chrono's greatest one is refused
DurationMax == 1000
FromStdOk(ttl) == ttl <= DurationMax

\* faulty variant: a metadata that never carries an expiration
MetadataNewNoTtl(key, ttl, encrypted, t) ==
    [key |-> key, expiration |-> NoExp, encrypted |-> encrypted]

\* Metadata::new: the expiration is now + ttl
MetadataNew(key, ttl, encrypted, t) ==
    [key |-> key, expiration |-> IF ttl = NoTtl THEN NoExp ELSE t + ttl,
     encrypted |-> encrypted]

\* faulty variant: the expiration is never looked at
ExpiredNever(md, t) == FALSE

\* faulty variant: an item with an expiration is expired at once
ExpiredAtOnce(md, t) == md.expiration # NoExp

\* Utc::now().gt(&expiration)
Expired(md, t) == md.expiration # NoExp /\ t > md.expiration

\* get_deserialize: the bincode decoding of what _get returned
DeserializeMetadata(r) ==
    IF r.t # "some" THEN [t |-> r.t, e |-> r.e, md |-> BadMetadata]
    ELSE LET md == DecodeMetadata(r.v) IN
         IF md.ok THEN [t |-> "some", e |-> "", md |-> md]
         ELSE [t |-> "err", e |-> "decode", md |-> BadMetadata]

\* get_raw, line 117: what _get returned, as it is
RawValue(r) ==
    IF r.t = "err" THEN Err(r.e)
    ELSE IF r.t = "none" THEN OkNone
    ELSE OkSome(r.v)

DeserializeValue(r) ==
    IF r.t = "err" THEN Err(r.e)
    ELSE IF r.t = "none" THEN OkNone
    ELSE LET s == DecodeString(r.v) IN
         IF s.ok THEN OkSome(s.v) ELSE Err("decode")

\* get, after get_metadata returned (lines 74-92)
AfterGetMetadata(pr, r, t) ==
    LET m == DeserializeMetadata(r) IN
    IF m.t = "err" THEN Done(pr, Err(m.e))
    ELSE IF m.t = "none" THEN Done(pr, OkNone)
    ELSE IF Expired(m.md, t)
         THEN Call_remove(pr, sanitize_key(pr.key), "get_rm_value")
         ELSE Call_get(pr, sanitize_key(pr.key), "get_value")

\* insert and insert_with_ttl, after the value was written (lines 179-180)
AfterInsertValue(pr, r, t, c) ==
    IF r.t = "err" THEN Done(pr, r)
    ELSE IF ~FromStdOk(pr.ttl) THEN Done(pr, Err("duration"))
    ELSE LET md == MetadataNew(pr.key, pr.ttl, c # 0, t) IN
         Call_insert([pr EXCEPT !.exp = md.expiration],
                     sanitize_metadata_key(md.key),
                     SealBytes(c, pr.nonce, EncodeMetadata(md)), "insert_metadata")

\* faulty variant: a value without metadata is removed whatever its age
AfterCleanLookupNoGrace(pr, r, t) ==
    LET m == DeserializeMetadata(r) IN
    IF m.t = "err" THEN [pr EXCEPT !.pc = "c_next"]
    ELSE IF m.t = "none" THEN Call_remove(pr, pr.cur, "clean_next")
    ELSE IF Expired(m.md, t)
         THEN Call_remove(pr, pr.cur, "clean_rm_value")
         ELSE [pr EXCEPT !.pc = "c_next", !.keys = @ \cup {m.md.key}]

\* faulty variant: only the keys that carry an expiration are listed
AfterCleanLookupNoPush(pr, r, t) ==
    LET m == DeserializeMetadata(r) IN
    IF m.t = "err" THEN [pr EXCEPT !.pc = "c_next"]
    ELSE IF m.t = "none"
    THEN IF pr.age > GraceSecs
         THEN Call_remove(pr, pr.cur, "clean_next")
         ELSE [pr EXCEPT !.pc = "c_next"]
    ELSE IF Expired(m.md, t)
         THEN Call_remove(pr, pr.cur, "clean_rm_value")
         ELSE IF m.md.expiration = NoExp THEN [pr EXCEPT !.pc = "c_next"]
         ELSE [pr EXCEPT !.pc = "c_next", !.keys = @ \cup {m.md.key}]

\* faulty variant: a lookup that fails is taken for a missing metadata
AfterCleanLookupErrRemoves(pr, r, t) ==
    LET m == DeserializeMetadata(r) IN
    IF m.t \in {"err", "none"}
    THEN IF pr.age > GraceSecs
         THEN Call_remove(pr, pr.cur, "clean_next")
         ELSE [pr EXCEPT !.pc = "c_next"]
    ELSE IF Expired(m.md, t)
         THEN Call_remove(pr, pr.cur, "clean_rm_value")
         ELSE [pr EXCEPT !.pc = "c_next", !.keys = @ \cup {m.md.key}]

\* clean, after the metadata lookup of a value entry (lines 319-351)
AfterCleanLookup(pr, r, t) ==
    LET m == DeserializeMetadata(r) IN
    IF m.t = "err" THEN [pr EXCEPT !.pc = "c_next"]
    ELSE IF m.t = "none"
    THEN IF pr.age > GraceSecs
         THEN Call_remove(pr, pr.cur, "clean_next")
         ELSE [pr EXCEPT !.pc = "c_next"]
    ELSE IF Expired(m.md, t)
         THEN Call_remove(pr, pr.cur, "clean_rm_value")
         ELSE [pr EXCEPT !.pc = "c_next", !.keys = @ \cup {m.md.key}]

\* faulty variant: the error of the value's _remove is dropped
AfterRemoveValueDropped(pr, r) ==
    Call_remove(pr, sanitize_metadata_key(pr.key), "remove_metadata")

\* remove, lines 266-267: _remove(value)?, then remove_metadata
AfterRemoveValue(pr, r) ==
    IF r.t = "err" THEN Done(pr, r)
    ELSE Call_remove(pr, sanitize_metadata_key(pr.key), "remove_metadata")

\* get, line 80: let _ = self.remove(key), an error of which is dropped
AfterExpiredRemoveValue(pr, r) ==
    IF r.t = "err" THEN Done(pr, OkNone)
    ELSE Call_remove(pr, sanitize_metadata_key(pr.key), "get_rm_metadata")

\* the return of _get, _insert or _remove to its caller: r is what the call
\* returned, t the clock, c the handle's cipher key
RECURSIVE Return(_, _, _, _)
Return(pr0, r, t, c) ==
    LET k == Head(pr0.stack)
        pr == [pr0 EXCEPT !.stack = Tail(@)]
    IN  CASE k = "get_metadata" -> AfterGetMetadata(pr, r, t)
          [] k = "get_value" -> Done(pr, DeserializeValue(r))
          [] k = "get_raw" -> Done(pr, RawValue(r))
          [] k = "get_rm_value" -> AfterExpiredRemoveValue(pr, r)
          [] k = "get_rm_metadata" -> Done(pr, OkNone)
          [] k = "insert_value" -> AfterInsertValue(pr, r, t, c)
          [] k = "insert_metadata" -> Done(pr, r)
          [] k = "insert_raw" -> Done(pr, r)
          [] k = "insert_failed" ->
                \* _insert, line 258: Err(e), and the lock object goes away
                Return([pr EXCEPT !.lk = 0], Err("io"), t, c)
          [] k = "remove_value" -> AfterRemoveValue(pr, r)
          [] k = "remove_metadata" -> Done(pr, r)
          [] k = "get_empty" ->
                \* _get, lines 148-150: the lock object goes out of scope
                Return([pr EXCEPT !.lk = 0], OkNone, t, c)
          [] k = "clean_lookup" -> AfterCleanLookup(pr, r, t)
          [] k = "clean_rm_value" ->
                Call_remove(pr, MetadataFilename(pr.cur), "clean_next")
          [] k = "clean_next" -> [pr EXCEPT !.pc = "c_next"]

---------------------------------------------------------------------------
(* NamedLock: the lock file and the flock on it *)

\* NamedLock::with_path: open the lock file, creating it when absent.  A
\* nested call finds the lock object its caller still owns.
WithPath(p, next) ==
    LET pr == proc[p]
        ln == LockPath(pr.name)
    IN  IF pr.lk # 0
        THEN Step(p, [pr EXCEPT !.pc = next], dir, ino)
        ELSE IF dir[ln] # 0
        THEN Step(p, [pr EXCEPT !.pc = next, !.lk = dir[ln]], dir, ino)
        ELSE LET i == FreshIno IN
             Step(p, [pr EXCEPT !.pc = next, !.lk = i], [dir EXCEPT ![ln] = i],
                  [ino EXCEPT ![i] = [bytes |-> <<>>, mtime |-> now]])

\* faulty variant: an flock that excludes nobody
LockFreeAlways(p) == TRUE

\* faulty variant: an flock that is never granted
LockFreeNever(p) == FALSE

\* the flock is free when no other process holds one on the same inode
LockFree(p) ==
    \A q \in Procs \ {p} : ~(proc[q].held /\ proc[q].lk = proc[p].lk)

\* lock.lock(): blocks until the flock is free
LockLock(p, next) ==
    /\ LockFree(p)
    /\ Step(p, [proc[p] EXCEPT !.pc = next, !.held = TRUE], dir, ino)

---------------------------------------------------------------------------
(* _get, lines 120-171 *)

GetPath(p) ==
    /\ proc[p].pc = "g_path"
    /\ WithPath(p, "g_lock")
    /\ UNCHANGED <<now, cipher>>

GetLock(p) ==
    /\ proc[p].pc = "g_lock"
    /\ LockLock(p, "g_open")
    /\ UNCHANGED <<now, cipher>>

\* shm_open_read: not found returns None
GetOpen(p) ==
    LET pr == proc[p] IN
    /\ pr.pc = "g_open"
    /\ IF dir[pr.name] = 0
       THEN Step(p, Return([pr EXCEPT !.held = FALSE, !.lk = 0], OkNone, now,
                           cipher[p]), dir, ino)
       ELSE Step(p, [pr EXCEPT !.pc = "g_map", !.fd = dir[pr.name]], dir, ino)
    /\ UNCHANGED <<now, cipher>>

\* faulty variant: an empty mapping is reported as absent and left there
GetMapKeepsEmpty(p) ==
    LET pr == proc[p]
        mmap == ino[pr.fd].bytes
    IN  /\ pr.pc = "g_map"
        /\ Step(p, Return([pr EXCEPT !.fd = 0, !.held = FALSE, !.lk = 0],
                          IF Len(mmap) = 0 THEN OkNone
                          ELSE OpenBytes(cipher[p], mmap), now, cipher[p]),
                dir, ino)
        /\ UNCHANGED <<now, cipher>>

\* Mmap::map and the reading of the mapping
GetMap(p) ==
    LET pr == proc[p]
        mmap == ino[pr.fd].bytes
    IN  /\ pr.pc = "g_map"
        /\ IF Len(mmap) = 0
           THEN Step(p, Call_remove([pr EXCEPT !.fd = 0, !.held = FALSE],
                                    pr.name, "get_empty"), dir, ino)
           ELSE Step(p, Return([pr EXCEPT !.fd = 0, !.held = FALSE, !.lk = 0],
                               OpenBytes(cipher[p], mmap), now, cipher[p]),
                     dir, ino)
        /\ UNCHANGED <<now, cipher>>

---------------------------------------------------------------------------
(* _insert, lines 224-261, and shm::open_write *)

InsertPath(p) ==
    /\ proc[p].pc = "i_path"
    /\ WithPath(p, "i_lock")
    /\ UNCHANGED <<now, cipher>>

InsertLock(p) ==
    /\ proc[p].pc = "i_lock"
    /\ LockLock(p, "i_open")
    /\ UNCHANGED <<now, cipher>>

\* _insert, lines 255-259: the guard is dropped, the segment is removed and
\* the error is returned, whatever the removal returned
InsertFailed(pr) ==
    Call_remove([pr EXCEPT !.held = FALSE, !.fd = 0], pr.name, "insert_failed")

\* shm_open(O_RDWR | O_CREAT | O_TRUNC); a refused shm_open changes nothing
InsertOpen(p) ==
    LET pr == proc[p]
        i == IF dir[pr.name] = 0 THEN FreshIno ELSE dir[pr.name]
    IN  /\ pr.pc = "i_open"
        /\ IF <<pr.name.sfx, "open">> \in pr.wfail
           THEN Step(p, InsertFailed(pr), dir, ino)
           ELSE Step(p, [pr EXCEPT !.pc = "i_truncate", !.fd = i],
                     [dir EXCEPT ![pr.name] = i],
                     [ino EXCEPT ![i] = [bytes |-> <<>>, mtime |-> now]])
        /\ UNCHANGED <<now, cipher>>

\* ftruncate(fd, length): the new bytes are zero.  When ftruncate fails,
\* open_write returns the error (shm.rs 64-66) with the raw descriptor not
\* yet wrapped in an Fd: nothing closes it.
InsertTruncate(p) ==
    LET pr == proc[p] IN
    /\ pr.pc = "i_truncate"
    /\ IF <<pr.name.sfx, "truncate">> \in pr.wfail
       THEN Step(p, InsertFailed([pr EXCEPT !.leak = @ \cup {pr.fd}]), dir, ino)
       ELSE Step(p, [pr EXCEPT !.pc = "i_copy"], dir,
                 [ino EXCEPT ![pr.fd] = [bytes |-> Zeros(Len(pr.wbytes)),
                                         mtime |-> now]])
    /\ UNCHANGED <<now, cipher>>

\* MmapMut::map_mut and copy_from_slice, then the guard goes out of scope
InsertCopy(p) ==
    LET pr == proc[p] IN
    /\ pr.pc = "i_copy"
    /\ Step(p, Return([pr EXCEPT !.fd = 0, !.held = FALSE, !.lk = 0], OkUnit, now,
                      cipher[p]),
            dir, [ino EXCEPT ![pr.fd] = [bytes |-> pr.wbytes, mtime |-> now]])
    /\ UNCHANGED <<now, cipher>>

---------------------------------------------------------------------------
(* _remove, lines 275-292, and shm::unlink *)

RemovePath(p) ==
    /\ proc[p].pc = "r_path"
    /\ WithPath(p, "r_lock")
    /\ UNCHANGED <<now, cipher>>

RemoveLock(p) ==
    /\ proc[p].pc = "r_lock"
    /\ LockLock(p, "r_drop")
    /\ UNCHANGED <<now, cipher>>

\* line 287: _guard and lock are dropped where the if block ends
RemoveDrop(p) ==
    LET pr == proc[p] IN
    /\ pr.pc = "r_drop"
    /\ Step(p, [pr EXCEPT !.pc = "r_unlink", !.held = FALSE,
                          !.lk = IF Head(pr.stack) = "get_empty" THEN @ ELSE 0],
            dir, ino)
    /\ UNCHANGED <<now, cipher>>

\* faulty variant: not found is an error like any other errno
shm_unlink_strict(d, name, fail) ==
    IF d[name] = 0 \/ name.sfx \in fail THEN [r |-> Err("io"), d |-> d]
    ELSE [r |-> OkUnit, d |-> [d EXCEPT ![name] = 0]]

\* shm::unlink: not found is Ok; another errno is an IOError.  The system
\* refuses to unlink an entry that exists when its kind is in fail.
shm_unlink(d, name, fail) ==
    IF d[name] = 0 THEN [r |-> OkUnit, d |-> d]
    ELSE IF name.sfx \in fail THEN [r |-> Err("io"), d |-> d]
    ELSE [r |-> OkUnit, d |-> [d EXCEPT ![name] = 0]]

RemoveUnlink(p) ==
    LET pr == proc[p]
        u == shm_unlink(dir, pr.name, pr.fail)
    IN  /\ pr.pc = "r_unlink"
        /\ Step(p, Return(pr, u.r, now, cipher[p]), u.d, ino)
        /\ UNCHANGED <<now, cipher>>

---------------------------------------------------------------------------
(* The public operations *)

CanStart(p) == proc[p].pc \in {"idle", "done"}

\* the locals of a new call; the descriptors the process never closed stay
Begin(p, op, key) ==
    [IdleProc EXCEPT !.op = op, !.key = key, !.leak = proc[p].leak]

\* thread_rng's shuffle; a handle without a cipher draws no nonce
NoncesOf(c) == IF c = 0 THEN {FirstNonce} ELSE Nonces

\* get, lines 67-93
StartGet(p, key) ==
    /\ CanStart(p)
    /\ Step(p, Call_get(Begin(p, "get", key), sanitize_metadata_key(key),
                        "get_metadata"), dir, ino)
    /\ UNCHANGED <<now, cipher>>

\* get_raw, lines 114-118: the value segment, and no look at the metadata
StartGetRaw(p, key) ==
    /\ CanStart(p)
    /\ Step(p, Call_get(Begin(p, "get_raw", key), sanitize_key(key), "get_raw"),
            dir, ino)
    /\ UNCHANGED <<now, cipher>>

\* insert, lines 174-181
StartInsert(p, key, value) ==
    /\ CanStart(p)
    /\ \E n1, n2 \in NoncesOf(cipher[p]) :
          Step(p, Call_insert([Begin(p, "insert", key) EXCEPT !.val = value, !.nonce = n2],
                              sanitize_key(key),
                              SealBytes(cipher[p], n1, EncodeString(value)),
                              "insert_value"), dir, ino)
    /\ UNCHANGED <<now, cipher>>

\* insert_with_ttl, lines 184-191
StartInsertWithTtl(p, key, value, ttl) ==
    /\ CanStart(p)
    /\ \E n1, n2 \in NoncesOf(cipher[p]) :
          Step(p, Call_insert([Begin(p, "insert_with_ttl", key) EXCEPT
                                  !.val = value, !.ttl = ttl, !.nonce = n2],
                              sanitize_key(key),
                              SealBytes(cipher[p], n1, EncodeString(value)),
                              "insert_value"), dir, ino)
    /\ UNCHANGED <<now, cipher>>

\* insert_raw, lines 219-222: the value segment only
StartInsertRaw(p, key, bytes) ==
    /\ CanStart(p)
    /\ \E n1 \in NoncesOf(cipher[p]) :
          Step(p, Call_insert([Begin(p, "insert_raw", key) EXCEPT !.val = bytes],
                              sanitize_key(key), SealBytes(cipher[p], n1, bytes),
                              "insert_raw"), dir, ino)
    /\ UNCHANGED <<now, cipher>>

\* insert_raw_with_ttl, lines 194-203
StartInsertRawWithTtl(p, key, bytes, ttl) ==
    /\ CanStart(p)
    /\ \E n1, n2 \in NoncesOf(cipher[p]) :
          Step(p, Call_insert([Begin(p, "insert_raw_with_ttl", key) EXCEPT
                                  !.val = bytes, !.ttl = ttl, !.nonce = n2],
                              sanitize_key(key), SealBytes(cipher[p], n1, bytes),
                              "insert_value"), dir, ino)
    /\ UNCHANGED <<now, cipher>>

\* insert while the system refuses the calls wfail names: pairs of the kind
\* of segment and of the call, "open" for shm_open, "truncate" for ftruncate
StartInsertFaulty(p, key, value, wfail) ==
    /\ CanStart(p)
    /\ \E n1, n2 \in NoncesOf(cipher[p]) :
          Step(p, Call_insert([Begin(p, "insert", key) EXCEPT
                                  !.val = value, !.nonce = n2, !.wfail = wfail],
                              sanitize_key(key),
                              SealBytes(cipher[p], n1, EncodeString(value)),
                              "insert_value"), dir, ino)
    /\ UNCHANGED <<now, cipher>>

\* remove, lines 264-273; fail names the kinds of segment whose shm_unlink
\* the system refuses during this call
StartRemove(p, key, fail) ==
    /\ CanStart(p)
    /\ Step(p, Call_remove([Begin(p, "remove", key) EXCEPT !.fail = fail],
                           sanitize_key(key), "remove_value"), dir, ino)
    /\ UNCHANGED <<now, cipher>>

\* keys and clean, lines 295-301
StartClean(p) ==
    /\ CanStart(p)
    /\ Step(p, [Begin(p, "clean", NoKey) EXCEPT !.pc = "c_readdir"], dir, ino)
    /\ UNCHANGED <<now, cipher>>

\* new and new_with_encryption, lines 41-64: a new handle, and its sweep
StartNew(p, c) ==
    /\ CanStart(p)
    /\ Step(p, [Begin(p, "new", NoKey) EXCEPT !.pc = "c_readdir"], dir, ino)
    /\ cipher' = [cipher EXCEPT ![p] = c]
    /\ UNCHANGED now

---------------------------------------------------------------------------
(* clean, lines 300-381 *)

\* read_dir: the entries of the directory
CleanReadDir(p) ==
    LET pr == proc[p] IN
    /\ pr.pc = "c_readdir"
    /\ Step(p, [pr EXCEPT !.pc = "c_next", !.todo = {n \in Names : dir[n] # 0}],
            dir, ino)
    /\ UNCHANGED <<now, cipher>>

\* faulty variant: a sweep that reads a metadata entry it keeps under the
\* key's lock
CleanClassifyLocking(pr, n) ==
    LET age == now - ino[dir[n]].mtime
        at == [pr EXCEPT !.todo = @ \ {n}, !.cur = n, !.age = age]
        skip == [pr EXCEPT !.todo = @ \ {n}]
    IN  IF dir[n] = 0 THEN skip
        ELSE IF n.sfx = ""
        THEN Call_get(at, MetadataFilename(n), "clean_lookup")
        ELSE IF n.sfx = METADATA_SUFFIX
        THEN IF dir[ItemFilename(n)] = 0 /\ age > GraceSecs
             THEN Call_remove(at, n, "clean_next")
             ELSE Call_get(at, n, "clean_next")
        ELSE IF /\ dir[ItemFilename(n)] = 0
                /\ dir[MetadataFilename(n)] = 0
                /\ age > GraceSecs
             THEN Call_remove(at, n, "clean_next") ELSE skip

\* what the loop body does with entry n, up to its first call
CleanClassify(pr, n) ==
    LET age == now - ino[dir[n]].mtime
        at == [pr EXCEPT !.todo = @ \ {n}, !.cur = n, !.age = age]
        skip == [pr EXCEPT !.todo = @ \ {n}]
    IN  IF dir[n] = 0 THEN skip
        ELSE IF n.sfx = ""
        THEN Call_get(at, MetadataFilename(n), "clean_lookup")
        ELSE IF n.sfx = METADATA_SUFFIX
        THEN IF dir[ItemFilename(n)] = 0 /\ age > GraceSecs
             THEN Call_remove(at, n, "clean_next") ELSE skip
        ELSE IF /\ dir[ItemFilename(n)] = 0
                /\ dir[MetadataFilename(n)] = 0
                /\ age > GraceSecs
             THEN Call_remove(at, n, "clean_next") ELSE skip

\* the for loop: the next entry, in the directory's order, or Ok(keys)
CleanEntry(p) ==
    LET pr == proc[p] IN
    /\ pr.pc = "c_next"
    /\ IF pr.todo = {}
       THEN Step(p, Done(pr, OkKeys(pr.keys)), dir, ino)
       ELSE \E n \in pr.todo : Step(p, CleanClassify(pr, n), dir, ino)
    /\ UNCHANGED <<now, cipher>>

---------------------------------------------------------------------------
(* The clock *)

Tick(d, max) ==
    /\ now + d <= max
    /\ now' = now + d
    /\ UNCHANGED <<dir, ino, cipher, proc, last, used, passed, own, cleaned,
                   replaced, calls, snap, tracing>>

---------------------------------------------------------------------------
(* Specifications *)

NoSnap == [dir |-> [n \in Names |-> 0], ino |-> [i \in Inodes |-> Blank], now |-> 0]

Start(tr) ==
    /\ now = 0
    /\ dir = [n \in Names |-> 0]
    /\ ino = [i \in Inodes |-> Blank]
    /\ cipher = [p \in Procs |-> 0]
    /\ proc = [p \in Procs |-> IdleProc]
    /\ last = [k \in Keys |-> NoLast]
    /\ used = {}
    /\ passed = [k \in Keys |-> {}]
    /\ own = [p \in Procs |-> {}]
    /\ cleaned = {}
    /\ replaced = [k \in Keys |-> NoLast]
    /\ calls = 0
    /\ snap = NoSnap
    /\ tracing = tr

\* what the sequential and the concurrent specifications record
CallHistory == {"last", "used", "snap"}
ThreadHistory == {"passed", "own"}
SweepHistory == CallHistory \cup {"cleaned"}
OverwriteHistory == {"last", "snap", "replaced"}

Faults == SUBSET {"", METADATA_SUFFIX}

(* Sequential specifications: one process, one call at a time.  The clock
   moves between calls, and a tick forgets the last call's result. *)
SeqProc == CHOOSE p \in Procs : \A q \in Procs : p <= q
SeqKeys == {<<5>>}

SeqTick(d, max) ==
    /\ CanStart(SeqProc)
    /\ now + d <= max
    /\ now' = now + d
    /\ proc' = [proc EXCEPT ![SeqProc] = [IdleProc EXCEPT !.leak = proc[SeqProc].leak]]
    /\ snap' = NoSnap
    /\ UNCHANGED <<dir, ino, cipher, last, used, passed, own, cleaned, replaced,
                   calls, tracing>>

SeqSteps ==
    \/ GetPath(SeqProc) \/ GetLock(SeqProc) \/ GetOpen(SeqProc) \/ GetMap(SeqProc)
    \/ InsertPath(SeqProc) \/ InsertLock(SeqProc) \/ InsertOpen(SeqProc)
    \/ InsertTruncate(SeqProc) \/ InsertCopy(SeqProc)
    \/ RemovePath(SeqProc) \/ RemoveLock(SeqProc) \/ RemoveDrop(SeqProc)
    \/ RemoveUnlink(SeqProc)
    \/ CleanReadDir(SeqProc) \/ CleanEntry(SeqProc)

\* Handles with and without encryption: new, insert, get, remove.
StoreNext ==
    \/ \E k \in SeqKeys : StartGet(SeqProc, k)
    \/ \E k \in SeqKeys, v \in Values : StartInsert(SeqProc, k, v)
    \/ \E k \in SeqKeys, f \in Faults : StartRemove(SeqProc, k, f)
    \/ \E c \in Ciphers : StartNew(SeqProc, c)
    \/ SeqSteps

SpecStore == Start(CallHistory) /\ [][StoreNext]_vars

\* Expiration: a handle without encryption, and a clock of seconds.
TtlNext ==
    \/ \E k \in SeqKeys : StartGet(SeqProc, k)
    \/ \E k \in SeqKeys, v \in Values : StartInsert(SeqProc, k, v)
    \/ \E k \in SeqKeys, v \in Values, ttl \in 1..MaxTtl :
          StartInsertWithTtl(SeqProc, k, v, ttl)
    \/ StartClean(SeqProc)
    \/ SeqTick(1, MaxTime)
    \/ SeqSteps

SpecTtl == Start(SweepHistory) /\ [][TtlNext]_vars

\* Overwriting: inserts with and without TTL over one another, values of
\* two lengths, and a clock of seconds.
OverwriteNext ==
    \/ \E k \in SeqKeys : StartGet(SeqProc, k)
    \/ \E k \in SeqKeys, v \in Values : StartInsert(SeqProc, k, v)
    \/ \E k \in SeqKeys, v \in Values, ttl \in 1..MaxTtl :
          StartInsertWithTtl(SeqProc, k, v, ttl)
    \/ SeqTick(1, MaxTime)
    \/ GetPath(SeqProc) \/ GetLock(SeqProc) \/ GetOpen(SeqProc) \/ GetMap(SeqProc)
    \/ InsertPath(SeqProc) \/ InsertLock(SeqProc) \/ InsertOpen(SeqProc)
    \/ InsertTruncate(SeqProc) \/ InsertCopy(SeqProc)
    \/ RemovePath(SeqProc) \/ RemoveLock(SeqProc) \/ RemoveDrop(SeqProc)
    \/ RemoveUnlink(SeqProc)

SpecOverwrite == Start(OverwriteHistory) /\ [][OverwriteNext]_vars

\* The sweep: orphans, expired and live items, handles of two kinds, and a
\* clock that steps over the grace window.
SweepCiphers == {0, 1}
SweepValues == {<<1>>}
SweepRaw == {<<4>>}
SweepFaults == {{}, {METADATA_SUFFIX}}

SweepNext ==
    \/ \E k \in SeqKeys, v \in SweepValues : StartInsert(SeqProc, k, v)
    \/ \E k \in SeqKeys, v \in SweepValues, ttl \in 1..MaxTtl :
          StartInsertWithTtl(SeqProc, k, v, ttl)
    \/ \E k \in SeqKeys, b \in SweepRaw : StartInsertRaw(SeqProc, k, b)
    \/ \E k \in SeqKeys, f \in SweepFaults : StartRemove(SeqProc, k, f)
    \/ StartClean(SeqProc)
    \/ \E c \in SweepCiphers : StartNew(SeqProc, c)
    \/ SeqTick(IF now = 0 THEN GraceSecs ELSE 1, SweepMaxTime)
    \/ SeqSteps

SpecSweep == Start(CallHistory) /\ [][SweepNext]_vars

\* Failures: a TTL that chrono refuses, and refused shm_open and ftruncate
\* calls during an insert.
MaxLeaks == 2
FailTtls == {1, DurationMax + 1}
WriteFaults ==
    {{<<"", "open">>}, {<<"", "truncate">>}, {<<METADATA_SUFFIX, "truncate">>}}

FailNext ==
    \/ \E k \in SeqKeys : StartGet(SeqProc, k)
    \/ \E k \in SeqKeys, v \in Values : StartInsert(SeqProc, k, v)
    \/ \E k \in SeqKeys, v \in SweepValues, ttl \in FailTtls :
          StartInsertWithTtl(SeqProc, k, v, ttl)
    \/ \E k \in SeqKeys, b \in SweepRaw, ttl \in FailTtls :
          StartInsertRawWithTtl(SeqProc, k, b, ttl)
    \/ \E k \in SeqKeys, v \in SweepValues, f \in WriteFaults :
          /\ Cardinality(proc[SeqProc].leak) < MaxLeaks
          /\ StartInsertFaulty(SeqProc, k, v, f)
    \/ \E k \in SeqKeys : StartRemove(SeqProc, k, {})
    \/ StartClean(SeqProc)
    \/ SeqSteps

SpecFail == Start(CallHistory) /\ [][FailNext]_vars

\* Reads of both kinds over items with a TTL, and a clock of seconds.
RawTtlNext ==
    \/ \E k \in SeqKeys : StartGet(SeqProc, k)
    \/ \E k \in SeqKeys : StartGetRaw(SeqProc, k)
    \/ \E k \in SeqKeys, v \in Values, ttl \in 1..MaxTtl :
          StartInsertWithTtl(SeqProc, k, v, ttl)
    \/ \E k \in SeqKeys, b \in SweepRaw, ttl \in 1..MaxTtl :
          StartInsertRawWithTtl(SeqProc, k, b, ttl)
    \/ SeqTick(1, MaxTime)
    \/ GetPath(SeqProc) \/ GetLock(SeqProc) \/ GetOpen(SeqProc) \/ GetMap(SeqProc)
    \/ InsertPath(SeqProc) \/ InsertLock(SeqProc) \/ InsertOpen(SeqProc)
    \/ InsertTruncate(SeqProc) \/ InsertCopy(SeqProc)
    \/ RemovePath(SeqProc) \/ RemoveLock(SeqProc) \/ RemoveDrop(SeqProc)
    \/ RemoveUnlink(SeqProc)

SpecRawTtl == Start({"last"}) /\ [][RawTtlNext]_vars

\* Empty segments: insert_raw of an empty slice, over a key with or without
\* metadata, and reads of both kinds.
EmptyNext ==
    \/ \E k \in SeqKeys : StartGet(SeqProc, k)
    \/ \E k \in SeqKeys : StartGetRaw(SeqProc, k)
    \/ \E k \in SeqKeys, v \in Values : StartInsert(SeqProc, k, v)
    \/ \E k \in SeqKeys, b \in RawValues : StartInsertRaw(SeqProc, k, b)
    \/ GetPath(SeqProc) \/ GetLock(SeqProc) \/ GetOpen(SeqProc) \/ GetMap(SeqProc)
    \/ InsertPath(SeqProc) \/ InsertLock(SeqProc) \/ InsertOpen(SeqProc)
    \/ InsertTruncate(SeqProc) \/ InsertCopy(SeqProc)
    \/ RemovePath(SeqProc) \/ RemoveLock(SeqProc) \/ RemoveDrop(SeqProc)
    \/ RemoveUnlink(SeqProc)

SpecEmpty == Start({"snap"}) /\ [][EmptyNext]_vars

(* Concurrent specifications: every process runs calls of its own, a step
   at a time, on handles without encryption. *)
ConcMaxTime == 6

GetSteps(p) == GetPath(p) \/ GetLock(p) \/ GetOpen(p) \/ GetMap(p)

InsertSteps(p) ==
    \/ InsertPath(p) \/ InsertLock(p) \/ InsertOpen(p)
    \/ InsertTruncate(p) \/ InsertCopy(p)

RemoveSteps(p) ==
    RemovePath(p) \/ RemoveLock(p) \/ RemoveDrop(p) \/ RemoveUnlink(p)

CleanSteps(p) == CleanReadDir(p) \/ CleanEntry(p)

\* insert and get only, as the threads of the concurrency tests run them
InsGetNext ==
    \E p \in Procs :
        \/ \E k \in SeqKeys : StartGet(p, k)
        \/ \E k \in SeqKeys, v \in Values : StartInsert(p, k, v)
        \/ GetSteps(p)
        \/ InsertSteps(p)

SpecInsGet == Start(ThreadHistory) /\ [][InsGetNext]_vars

\* get, insert and remove, every process on a key of its own
HomeKey == [p \in Procs |-> IF p = SeqProc THEN <<5>> ELSE <<6>>]

TwoKeysNext ==
    \E p \in Procs :
        \/ StartGet(p, HomeKey[p])
        \/ \E v \in SweepValues : StartInsert(p, HomeKey[p], v)
        \/ StartRemove(p, HomeKey[p], {})
        \/ GetSteps(p)
        \/ InsertSteps(p)
        \/ RemoveSteps(p)

SpecTwoKeys == Start({}) /\ [][TwoKeysNext]_vars

\* one process inserts, with and without TTL, while the others sweep; no
\* remove and no get
Writer == SeqProc
Others == Procs \ {Writer}

SweepRaceNext ==
    \/ \E k \in SeqKeys, v \in SweepValues : StartInsert(Writer, k, v)
    \/ \E k \in SeqKeys, v \in SweepValues : StartInsertWithTtl(Writer, k, v, 1)
    \/ \E p \in Others : StartClean(p)
    \/ \E p \in Procs :
          GetSteps(p) \/ InsertSteps(p) \/ RemoveSteps(p) \/ CleanSteps(p)
    \/ Tick(GraceSecs + 1, ConcMaxTime)

SpecSweepRace == Start({}) /\ [][SweepRaceNext]_vars

\* one process inserts, with and without TTL, and reads back; the others
\* read; no remove and no sweep
GetRaceNext ==
    \/ \E k \in SeqKeys, v \in SweepValues : StartInsert(Writer, k, v)
    \/ \E k \in SeqKeys, v \in SweepValues : StartInsertWithTtl(Writer, k, v, 1)
    \/ \E p \in Procs, k \in SeqKeys : StartGet(p, k)
    \/ \E p \in Procs : GetSteps(p) \/ InsertSteps(p) \/ RemoveSteps(p)
    \/ Tick(GraceSecs + 1, ConcMaxTime)

SpecGetRace == Start({"last"}) /\ [][GetRaceNext]_vars

\* Inserts racing on one key: the writer inserts a short value with a TTL,
\* the others a long value without.
TtlValue == <<1>>
PlainValue == <<2, 3>>

InsertRaceNext ==
    \/ \E k \in SeqKeys, ttl \in 1..MaxTtl :
          StartInsertWithTtl(Writer, k, TtlValue, ttl)
    \/ \E p \in Others, k \in SeqKeys : StartInsert(p, k, PlainValue)
    \/ \E p \in Procs : InsertSteps(p)
    \/ Tick(1, MaxTime)

SpecInsertRace == Start({}) /\ [][InsertRaceNext]_vars

\* Termination: MaxCalls calls on one key, the writer inserting with a TTL
\* that runs out when the clock moves, the others removing and sweeping, and
\* everybody reading; the steps of a call are taken fairly and a lock that is
\* free again and again is granted.
MaxCalls == 3
LiveMaxTime == 2
LiveTtl == 1

LiveStart(p) ==
    \/ \E k \in SeqKeys : StartGet(p, k)
    \/ /\ p = Writer
       /\ \E k \in SeqKeys : StartInsertWithTtl(p, k, TtlValue, LiveTtl)
    \/ /\ p \in Others
       /\ \/ \E k \in SeqKeys : StartRemove(p, k, {})
          \/ StartClean(p)

\* the steps of a call that wait for nobody
Advance(p) ==
    \/ GetPath(p) \/ GetOpen(p) \/ GetMap(p)
    \/ InsertPath(p) \/ InsertOpen(p) \/ InsertTruncate(p) \/ InsertCopy(p)
    \/ RemovePath(p) \/ RemoveDrop(p) \/ RemoveUnlink(p)
    \/ CleanReadDir(p) \/ CleanEntry(p)

\* lock.lock() in _get, _insert and _remove
Acquire(p) == GetLock(p) \/ InsertLock(p) \/ RemoveLock(p)

LiveNext ==
    \/ \E p \in Procs : (calls < MaxCalls /\ LiveStart(p)) \/ Advance(p) \/ Acquire(p)
    \/ Tick(LiveTtl + 1, LiveMaxTime)

Fairness ==
    \A p \in Procs : WF_vars(Advance(p)) /\ SF_vars(Acquire(p))

SpecLive == Start({"calls"}) /\ [][LiveNext]_vars /\ Fairness

\* get, insert, remove and the sweep, with a clock that steps over the
\* grace window
ConcNext ==
    \/ \E p \in Procs :
          \/ \E k \in SeqKeys : StartGet(p, k)
          \/ \E k \in SeqKeys, v \in SweepValues : StartInsert(p, k, v)
          \/ \E k \in SeqKeys : StartRemove(p, k, {})
          \/ StartClean(p)
          \/ GetSteps(p)
          \/ InsertSteps(p)
          \/ RemoveSteps(p)
          \/ CleanSteps(p)
    \/ Tick(GraceSecs + 1, ConcMaxTime)

SpecConc == Start({"passed"}) /\ [][ConcNext]_vars

---------------------------------------------------------------------------
(* Properties of the sequential store *)

Finished(p, op) == proc[p].pc = "done" /\ proc[p].op = op

\* C1: a get that follows an insert of v on the same key, through a handle
\* with the same cipher (or none), returns Ok(Some(v)).
RoundTrip ==
    \A p \in Procs :
        LET pr == proc[p] IN
        (/\ Finished(p, "get")
         /\ last[pr.key].op = "insert"
         /\ last[pr.key].ok
         /\ last[pr.key].cipher = cipher[p])
        => pr.res = OkSome(last[pr.key].val)

RoundTripWitness ==
    \E p \in Procs :
        /\ Finished(p, "get")
        /\ last[proc[p].key].op = "insert"
        /\ cipher[p] # 0
        /\ last[proc[p].key].cipher = cipher[p]
        /\ proc[p].res.t = "some"

\* C10: a get through a handle with key B of a key inserted through a handle
\* with another key A returns an error.
WrongKeyFails ==
    \A p \in Procs :
        LET pr == proc[p] IN
        (/\ Finished(p, "get")
         /\ last[pr.key].op = "insert"
         /\ last[pr.key].ok
         /\ last[pr.key].cipher \in EncKeys
         /\ cipher[p] \in EncKeys \ {last[pr.key].cipher})
        => pr.res.t = "err"

WrongKeyWitness ==
    \E p \in Procs :
        /\ Finished(p, "get")
        /\ last[proc[p].key].op = "insert"
        /\ last[proc[p].key].cipher = 1
        /\ cipher[p] = 2
        /\ proc[p].res = Err("aead")

\* the entry of name n is what it was when the running call began
SameEntry(n) ==
    /\ dir[n] = snap.dir[n]
    /\ dir[n] # 0 => ino[dir[n]] = snap.ino[dir[n]]

\* the key of the running call had no value and no metadata segment when
\* the call began
WasAbsent(key) ==
    snap.dir[sanitize_key(key)] = 0 /\ snap.dir[sanitize_metadata_key(key)] = 0

\* C5 as stated: remove of an absent key returns Ok and no entry of the
\* namespace is created, modified or deleted.
RemoveAbsentChangesNothing ==
    \A p \in Procs :
        (Finished(p, "remove") /\ WasAbsent(proc[p].key))
        => (proc[p].res = OkUnit /\ \A n \in Names : SameEntry(n))

\* C5 amended: remove of an absent key returns Ok and creates, modifies or
\* deletes no value or metadata segment; the one entry it may create is the
\* key's lock file, when that file was absent.
RemoveAbsentKeepsSegments ==
    \A p \in Procs :
        (Finished(p, "remove") /\ WasAbsent(proc[p].key))
        => /\ proc[p].res = OkUnit
           /\ \A n \in Names :
                 \/ SameEntry(n)
                 \/ /\ n = LockPath(sanitize_key(proc[p].key))
                    /\ snap.dir[n] = 0
                    /\ dir[n] # 0

RemoveAbsentWitness ==
    \E p \in Procs :
        /\ Finished(p, "remove")
        /\ WasAbsent(proc[p].key)
        /\ proc[p].res = OkUnit
        /\ snap.dir[LockPath(sanitize_key(proc[p].key))] = 0
        /\ dir[LockPath(sanitize_key(proc[p].key))] # 0

\* C6: remove unlinks the value segment before the metadata segment; after
\* it returned Ok neither exists and a get through any handle returns None;
\* when the value's unlink fails remove returns the error and the metadata
\* segment is as it was.
RemoveOrder ==
    \A p \in Procs :
        LET pr == proc[p]
            v == sanitize_key(pr.key)
            m == sanitize_metadata_key(pr.key)
        IN  /\ (pr.op = "remove" /\ pr.stack = <<"remove_metadata">>)
                  => dir[v] = 0
            /\ (Finished(p, "remove") /\ pr.res = OkUnit)
                  => (dir[v] = 0 /\ dir[m] = 0)
            /\ (Finished(p, "get") /\ last[pr.key].op = "remove" /\ last[pr.key].ok)
                  => pr.res = OkNone
            /\ (Finished(p, "remove") /\ snap.dir[v] # 0 /\ "" \in pr.fail)
                  => (pr.res = Err("io") /\ SameEntry(m) /\ SameEntry(v))

RemoveOrderWitness ==
    \E p \in Procs :
        /\ Finished(p, "remove")
        /\ "" \in proc[p].fail
        /\ proc[p].res = Err("io")
        /\ dir[sanitize_key(proc[p].key)] # 0
        /\ dir[sanitize_metadata_key(proc[p].key)] # 0

\* a remove that returned Ok on a key that was present, then a get of it
RemoveThenGetWitness ==
    \E p \in Procs :
        /\ Finished(p, "get")
        /\ last[proc[p].key].op = "remove"
        /\ last[proc[p].key].ok
        /\ cipher[p] # 0

---------------------------------------------------------------------------
(* Properties of expiration and of the sweep *)

\* C4: after insert_with_ttl(k, v, d) a get before the expiration returns
\* Some(v); a get after it returns Ok(None) and leaves neither the value nor
\* the metadata segment of k.
TtlExpiry ==
    \A p \in Procs :
        LET pr == proc[p]
            l == last[pr.key]
        IN  (/\ Finished(p, "get")
             /\ l.op = "insert_with_ttl"
             /\ l.ok
             /\ l.cipher = cipher[p])
            => /\ now < l.exp => pr.res = OkSome(l.val)
               /\ now > l.exp =>
                     /\ pr.res = OkNone
                     /\ dir[sanitize_key(pr.key)] = 0
                     /\ dir[sanitize_metadata_key(pr.key)] = 0

\* the get that finds the item expired and removes both segments
TtlExpiryWitness ==
    \E p \in Procs :
        /\ Finished(p, "get")
        /\ last[proc[p].key].op = "insert_with_ttl"
        /\ now > last[proc[p].key].exp
        /\ snap.dir[sanitize_key(proc[p].key)] # 0
        /\ snap.dir[sanitize_metadata_key(proc[p].key)] # 0
        /\ dir[sanitize_key(proc[p].key)] = 0
        /\ dir[sanitize_metadata_key(proc[p].key)] = 0
        /\ proc[p].res = OkNone

Swept(p) == Finished(p, "clean") \/ Finished(p, "new")

\* the age an entry had when the running call began
AgeAtStart(n) == snap.now - snap.ino[snap.dir[n]].mtime

\* entry n had no counterpart c when the sweep began: the sweep removed it
\* when it was older than the grace window and left it alone otherwise
Healed(n, c) ==
    (snap.dir[n] # 0 /\ snap.dir[c] = 0)
    => IF AgeAtStart(n) > GraceSecs THEN dir[n] = 0 ELSE SameEntry(n)

\* C9: clean removes a value segment without metadata, and a metadata
\* segment without value, exactly when the entry was modified more than the
\* grace window ago; a younger one is left as it is.
OrphanHealing ==
    \A p \in Procs : Swept(p) =>
        \A k \in Keys :
            /\ Healed(sanitize_key(k), sanitize_metadata_key(k))
            /\ Healed(sanitize_metadata_key(k), sanitize_key(k))

OrphanHealingWitness ==
    \E p \in Procs, k \in Keys :
        /\ Swept(p)
        /\ snap.dir[sanitize_key(k)] # 0
        /\ snap.dir[sanitize_metadata_key(k)] = 0
        /\ AgeAtStart(sanitize_key(k)) > GraceSecs
        /\ dir[sanitize_key(k)] = 0

\* an orphan younger than the grace window, kept by a sweep
YoungOrphanWitness ==
    \E p \in Procs, k \in Keys :
        /\ Swept(p)
        /\ snap.dir[sanitize_metadata_key(k)] # 0
        /\ snap.dir[sanitize_key(k)] = 0
        /\ AgeAtStart(sanitize_metadata_key(k)) = GraceSecs
        /\ dir[sanitize_metadata_key(k)] # 0

\* key k was inserted, and neither removed nor expired since
LiveByHistory(k) ==
    /\ last[k].ok
    /\ \/ last[k].op = "insert"
       \/ last[k].op = "insert_with_ttl" /\ now <= last[k].exp

\* the metadata segment of k as handle c read it when the call began
MetadataAtStart(k, c) ==
    IF snap.dir[sanitize_metadata_key(k)] = 0 THEN BadMetadata
    ELSE LET b == snap.ino[snap.dir[sanitize_metadata_key(k)]].bytes IN
         IF Len(b) = 0 THEN BadMetadata
         ELSE DeserializeMetadata(OpenBytes(c, b)).md

KeysOf(p) ==
    \A k \in Keys :
        /\ LiveByHistory(k) => k \in proc[p].res.ks
        /\ k \in proc[p].res.ks =>
              /\ snap.dir[sanitize_key(k)] # 0
              /\ MetadataAtStart(k, cipher[p]).ok
              /\ ~Expired(MetadataAtStart(k, cipher[p]), now)

---------------------------------------------------------------------------
(* Properties of concurrent calls *)

\* process p is between lock.lock() and the end of the guard's scope, in the
\* section of _get (open, map, read) or of _insert (open, truncate, write)
InSection(p) ==
    proc[p].pc \in {"g_open", "g_map", "i_open", "i_truncate", "i_copy"}

\* the logical key whose lock guards segment n
LockOf(n) == LockPath(n).hash

\* C3: at most one process at a time is inside a lock-protected section on
\* the value or the metadata segment of one key.
MutualExclusion ==
    \A p, q \in Procs :
        (p # q /\ InSection(p) /\ InSection(q))
        => LockOf(proc[p].name) # LockOf(proc[q].name)

\* a completed get returned None or a value some insert call was given
WholeValue(p) ==
    \/ proc[p].res = OkNone
    \/ \E w \in passed[proc[p].key] : proc[p].res = OkSome(w)

\* C2: under concurrent insert, get, remove and sweeps on one key, every
\* completed get returns None or a value written by one insert call, and no
\* get, insert or remove returns an error.
NoTornRead ==
    \A p \in Procs :
        (proc[p].pc = "done" /\ proc[p].op \in {"get", "insert", "remove"})
        => /\ proc[p].res.t # "err"
           /\ proc[p].op = "get" => WholeValue(p)

\* C8: with insert (no TTL) and get only, a get a thread issues after an
\* insert of its own returned Ok returns Some(w), w a value given to one of
\* the insert calls.
InsertThenGet ==
    \A p \in Procs :
        (Finished(p, "get") /\ proc[p].key \in own[p])
        => \E w \in passed[proc[p].key] : proc[p].res = OkSome(w)

\* a get after an own insert that returns the value another thread wrote,
\* while a third call, an insert, is under way
InsertThenGetWitness ==
    \E p, q \in Procs :
        /\ p # q
        /\ Finished(p, "get")
        /\ proc[p].key \in own[p]
        /\ proc[q].op = "insert"
        /\ proc[q].pc = "i_lock"
        /\ proc[q].key \in own[q]
        /\ passed[proc[p].key] = Values
        /\ proc[p].res.t = "some"
        /\ proc[p].res.v # proc[q].val

---------------------------------------------------------------------------
(* Properties of failing calls *)

\* C11: insert_with_ttl and insert_raw_with_ttl with a TTL that has no
\* expiration instant return DurationOutOfRangeError and leave the value
\* and the metadata segment of the key as they were before the call.
TtlOutOfRangeRefused ==
    \A p \in Procs :
        (/\ proc[p].pc = "done"
         /\ proc[p].op \in {"insert_with_ttl", "insert_raw_with_ttl"}
         /\ ~FromStdOk(proc[p].ttl))
        => /\ proc[p].res = Err("duration")
           /\ SameEntry(sanitize_key(proc[p].key))
           /\ SameEntry(sanitize_metadata_key(proc[p].key))

\* C12: when insert or insert_with_ttl returns an error after the write of
\* the value began, the value segment of the key is gone.
FailedInsertLeavesNothing ==
    \A p \in Procs :
        (/\ proc[p].pc = "done"
         /\ proc[p].op \in Inserting
         /\ proc[p].res.t = "err")
        => dir[sanitize_key(proc[p].key)] = 0

\* C14: when a call returns, with Ok or with an error, the caller holds no
\* key lock and no open segment descriptor.
NoResourceOutlives ==
    \A p \in Procs :
        proc[p].pc = "done"
        => /\ ~proc[p].held
           /\ proc[p].lk = 0
           /\ proc[p].fd = 0
           /\ proc[p].leak = {}

---------------------------------------------------------------------------
(* Properties of the locks *)

\* process p is about to take, or waits for, the lock of its segment
AtLock(p) == proc[p].pc \in {"g_lock", "i_lock", "r_lock"}

\* C13: distinct keys have distinct lock names, and a process that takes
\* the lock of one key never finds it held for another key.
DistinctKeysNeverBlock ==
    /\ \A k1, k2 \in Keys :
          k1 # k2 =>
             /\ LockPath(sanitize_key(k1)) # LockPath(sanitize_key(k2))
             /\ LockPath(sanitize_metadata_key(k1)) # LockPath(sanitize_key(k2))
    /\ \A p, q \in Procs :
          (/\ p # q
           /\ AtLock(p)
           /\ proc[q].held
           /\ proc[p].name.hash # proc[q].name.hash)
          => /\ proc[q].lk # proc[p].lk
             /\ LockFree(p)

\* a process at its lock while the other holds the lock of the other key
DistinctKeysWitness ==
    \E p, q \in Procs :
        /\ AtLock(p)
        /\ proc[q].held
        /\ InSection(q)
        /\ proc[p].key # proc[q].key
        /\ LockFree(p)

\* C15: _remove unlinks a value or a metadata segment while it holds the
\* key's lock, so never while another process is in a lock-protected
\* section on the same key.
RemoveUnderLock ==
    \A p \in Procs :
        (proc[p].pc = "r_unlink" /\ proc[p].name.sfx # LOCK_SUFFIX)
        => /\ proc[p].held
           /\ \A q \in Procs \ {p} :
                 InSection(q) => proc[q].name.hash # proc[p].name.hash

---------------------------------------------------------------------------
(* Properties of an insert that races a sweep or a get *)

\* C16: with concurrent sweeps and no remove, once insert has returned Ok
\* the value segment and the metadata segment of the key both exist: no
\* sweep deleted what the insert wrote.
SweepSparesInsert ==
    \A p \in Procs :
        (proc[p].pc = "done" /\ proc[p].op = "insert" /\ proc[p].res = OkUnit)
        => /\ dir[sanitize_key(proc[p].key)] # 0
           /\ dir[sanitize_metadata_key(proc[p].key)] # 0

\* C17: once insert (no TTL) has returned Ok and no remove is called, a
\* later get of the key returns Some, whatever gets of other processes ran
\* during the insert.  The writer is the one process that inserts, so a get
\* it completes after its insert was issued after that insert returned.
InsertMakesPresent ==
    \A k \in SeqKeys :
        (/\ Finished(Writer, "get")
         /\ proc[Writer].key = k
         /\ last[k].op = "insert"
         /\ last[k].ok)
        => proc[Writer].res.t = "some"


---------------------------------------------------------------------------
(* The locks of a sweep *)

Sweeping(p) == proc[p].op \in {"clean", "new"} /\ proc[p].pc # "done"

\* the sweep is in the metadata read of the value entry it is looking at
InLookup(p) ==
    /\ proc[p].pc \in {"g_open", "g_map"}
    /\ Head(proc[p].stack) = "clean_lookup"
    /\ proc[p].cur.sfx = ""
    /\ proc[p].name = MetadataFilename(proc[p].cur)

\* the sweep is in a _remove, between its lock and the drop of the guard
InRemoval(p) == proc[p].pc = "r_drop" /\ proc[p].name.sfx # LOCK_SUFFIX

---------------------------------------------------------------------------
(* The sweep over items with metadata *)

\* C19: a sweep over a value entry whose metadata is present removes the
\* value and the metadata segment when the expiration is in the past and
\* leaves both as they are when it is in the future or absent; a get after
\* the sweep, before the expiration, returns the value.
CleanByExpiration ==
    /\ \A p \in Procs : Finished(p, "clean") =>
          \A k \in Keys :
              LET md == MetadataAtStart(k, cipher[p]) IN
              (snap.dir[sanitize_key(k)] # 0 /\ md.ok) =>
                  IF md.expiration # NoExp /\ snap.now > md.expiration
                  THEN /\ dir[sanitize_key(k)] = 0
                       /\ dir[sanitize_metadata_key(k)] = 0
                  ELSE /\ SameEntry(sanitize_key(k))
                       /\ SameEntry(sanitize_metadata_key(k))
    /\ \A p \in Procs :
          LET l == last[proc[p].key] IN
          (/\ Finished(p, "get")
           /\ proc[p].key \in cleaned
           /\ l.op \in Inserting
           /\ l.ok
           /\ l.op = "insert_with_ttl" => now < l.exp)
          => proc[p].res = OkSome(l.val)

\* a sweep that found an expired item and removed both segments
CleanExpiredWitness ==
    \E p \in Procs, k \in Keys :
        /\ Finished(p, "clean")
        /\ snap.dir[sanitize_key(k)] # 0
        /\ MetadataAtStart(k, cipher[p]).ok
        /\ MetadataAtStart(k, cipher[p]).expiration # NoExp
        /\ snap.now > MetadataAtStart(k, cipher[p]).expiration
        /\ dir[sanitize_key(k)] = 0
        /\ dir[sanitize_metadata_key(k)] = 0

\* a sweep that kept an item whose expiration is in the future
CleanKeptWitness ==
    \E p \in Procs, k \in Keys :
        /\ Finished(p, "clean")
        /\ snap.dir[sanitize_key(k)] # 0
        /\ MetadataAtStart(k, cipher[p]).ok
        /\ MetadataAtStart(k, cipher[p]).expiration > snap.now
        /\ SameEntry(sanitize_key(k))
        /\ SameEntry(sanitize_metadata_key(k))

\* a get that returns the value after a sweep, before the expiration
GetAfterCleanWitness ==
    \E p \in Procs :
        /\ Finished(p, "get")
        /\ proc[p].key \in cleaned
        /\ last[proc[p].key].op = "insert_with_ttl"
        /\ now < last[proc[p].key].exp
        /\ proc[p].res = OkSome(last[proc[p].key].val)

---------------------------------------------------------------------------
(* Overwriting *)

\* the metadata a completed insert of process p must have left
MetadataOf(p) ==
    [key |-> proc[p].key,
     expiration |-> IF proc[p].ttl = NoTtl THEN NoExp ELSE snap.now + proc[p].ttl,
     encrypted |-> cipher[p] # 0]

\* C20: an insert through a handle without encryption returns Ok and leaves
\* a value segment that is exactly the encoding of its value and a metadata
\* segment that is exactly the encoding of its own key and expiration,
\* whatever the key held before; a get after an insert without TTL returns
\* that insert's value at any later time.
FullOverwrite ==
    /\ \A p \in Procs :
          (proc[p].pc = "done" /\ proc[p].op \in Inserting /\ cipher[p] = 0) =>
              /\ proc[p].res = OkUnit
              /\ dir[sanitize_key(proc[p].key)] # 0
              /\ ino[dir[sanitize_key(proc[p].key)]].bytes
                    = EncodeString(proc[p].val)
              /\ dir[sanitize_metadata_key(proc[p].key)] # 0
              /\ ino[dir[sanitize_metadata_key(proc[p].key)]].bytes
                    = EncodeMetadata(MetadataOf(p))
    /\ \A p \in Procs :
          (/\ Finished(p, "get")
           /\ cipher[p] = 0
           /\ last[proc[p].key].op = "insert"
           /\ last[proc[p].key].cipher = 0)
          => proc[p].res = OkSome(last[proc[p].key].val)

\* a get that returns the shorter value of an insert without TTL, after the
\* expiration of the longer item that insert replaced
FullOverwriteWitness ==
    \E p \in Procs :
        LET l == last[proc[p].key]
            r == replaced[proc[p].key]
        IN  /\ Finished(p, "get")
            /\ l.op = "insert"
            /\ r.op = "insert_with_ttl"
            /\ r.ok
            /\ now > r.exp
            /\ Len(r.val) > Len(l.val)
            /\ proc[p].res = OkSome(l.val)

\* an insert with TTL that has shrunk the value segment and replaced a
\* metadata without expiration
ShorterValueWitness ==
    \E p \in Procs :
        /\ Finished(p, "insert_with_ttl")
        /\ snap.dir[sanitize_key(proc[p].key)] # 0
        /\ Len(snap.ino[snap.dir[sanitize_key(proc[p].key)]].bytes)
              > Len(ino[dir[sanitize_key(proc[p].key)]].bytes)
        /\ MetadataAtStart(proc[p].key, cipher[p]).ok
        /\ MetadataAtStart(proc[p].key, cipher[p]).expiration = NoExp
        /\ DecodeMetadata(ino[dir[sanitize_metadata_key(proc[p].key)]].bytes).expiration
              = now + proc[p].ttl

---------------------------------------------------------------------------
(* The two segments of an inserted key *)

AnyInsert == {"insert", "insert_with_ttl", "insert_raw", "insert_raw_with_ttl"}

\* C21: every insert variant that returns Ok leaves the key with a value
\* segment and a metadata segment.
InsertLeavesBoth ==
    \A p \in Procs :
        (/\ proc[p].pc = "done"
         /\ proc[p].op \in AnyInsert
         /\ proc[p].res.t # "err")
        => /\ dir[sanitize_key(proc[p].key)] # 0
           /\ dir[sanitize_metadata_key(proc[p].key)] # 0

---------------------------------------------------------------------------
(* Raw reads of items with a TTL *)

WithTtl == {"insert_with_ttl", "insert_raw_with_ttl"}

\* C22: once the TTL of an item has elapsed, get_raw returns Ok(None), as
\* get does.
RawReadExpires ==
    \A p \in Procs :
        LET l == last[proc[p].key] IN
        (/\ proc[p].pc = "done"
         /\ proc[p].op \in {"get", "get_raw"}
         /\ l.op \in WithTtl
         /\ l.ok
         /\ now > l.exp)
        => proc[p].res = OkNone

---------------------------------------------------------------------------
(* Reads of an empty segment *)

\* segment n existed with no bytes when the running call began
EmptyAtStart(n) == snap.dir[n] # 0 /\ Len(snap.ino[snap.dir[n]].bytes) = 0

\* the read of process p came to the value segment of its key
ReadsValue(p) ==
    \/ proc[p].op = "get_raw"
    \/ /\ proc[p].op = "get"
       /\ MetadataAtStart(proc[p].key, cipher[p]).ok

\* C23: a read that finds a value segment of length zero returns Ok(None)
\* and has removed the segment when it returns; the nested _remove asks for
\* the key's lock only after the read has released it.
EmptyReadRemoves ==
    \A p \in Procs :
        /\ (/\ proc[p].pc = "done"
            /\ ReadsValue(p)
            /\ EmptyAtStart(sanitize_key(proc[p].key)))
           => /\ proc[p].res = OkNone
              /\ dir[sanitize_key(proc[p].key)] = 0
        /\ (proc[p].pc \in {"r_path", "r_lock"} /\ Head(proc[p].stack) = "get_empty")
           => ~proc[p].held

\* a get that found metadata and an empty value, and removed the value
EmptyReadWitness ==
    \E p \in Procs :
        /\ Finished(p, "get")
        /\ MetadataAtStart(proc[p].key, cipher[p]).ok
        /\ EmptyAtStart(sanitize_key(proc[p].key))
        /\ proc[p].res = OkNone
        /\ dir[sanitize_key(proc[p].key)] = 0
        /\ dir[sanitize_metadata_key(proc[p].key)] # 0

---------------------------------------------------------------------------
(* The sweep over metadata it cannot read *)

\* what the metadata lookup of key k through handle c returned, from the
\* namespace as it was when the call began: "some", "none" or "err"
LookupAtStart(k, c) ==
    IF snap.dir[sanitize_metadata_key(k)] = 0 THEN "none"
    ELSE LET b == snap.ino[snap.dir[sanitize_metadata_key(k)]].bytes IN
         IF Len(b) = 0 THEN "none"
         ELSE DeserializeMetadata(OpenBytes(c, b)).t

\* C24: a sweep whose metadata lookup for a value entry returns an error
\* removes neither the value nor the metadata segment, does not list the
\* key, and returns Ok.
CleanKeepsOnError ==
    \A p \in Procs : Swept(p) =>
        /\ proc[p].res.t = "keys"
        /\ \A k \in Keys :
              (/\ snap.dir[sanitize_key(k)] # 0
               /\ LookupAtStart(k, cipher[p]) = "err")
              => /\ SameEntry(sanitize_key(k))
                 /\ SameEntry(sanitize_metadata_key(k))
                 /\ k \notin proc[p].res.ks

\* a sweep that kept a value older than the grace window whose metadata it
\* could not read
CleanKeepsOnErrorWitness ==
    \E p \in Procs, k \in Keys :
        /\ Finished(p, "clean")
        /\ snap.dir[sanitize_key(k)] # 0
        /\ LookupAtStart(k, cipher[p]) = "err"
        /\ AgeAtStart(sanitize_key(k)) > GraceSecs
        /\ SameEntry(sanitize_key(k))
        /\ SameEntry(sanitize_metadata_key(k))

---------------------------------------------------------------------------
(* Inserts racing on one key *)

Quiescent == \A p \in Procs : proc[p].pc \in {"idle", "done"}

\* the expiration in the metadata segment of key k
ExpirationOf(k) ==
    DecodeMetadata(ino[dir[sanitize_metadata_key(k)]].bytes).expiration

\* C25: when all the concurrent inserts on a key have returned Ok, the value
\* and the metadata that remain come from one insert call: the value
\* inserted with a TTL has an expiration, the value inserted without has
\* none.
SegmentsOfOneInsert ==
    \A k \in SeqKeys :
        (/\ Quiescent
         /\ \A p \in Procs : proc[p].pc = "done" /\ proc[p].res = OkUnit
         /\ dir[sanitize_key(k)] # 0
         /\ dir[sanitize_metadata_key(k)] # 0)
        => /\ ino[dir[sanitize_key(k)]].bytes = EncodeString(TtlValue)
              => ExpirationOf(k) # NoExp
           /\ ino[dir[sanitize_key(k)]].bytes = EncodeString(PlainValue)
              => ExpirationOf(k) = NoExp

---------------------------------------------------------------------------
(* Termination *)

Busy(p) == proc[p].pc \notin {"idle", "done"}

\* process p is about to ask for a key's lock
Requesting(p) ==
    proc[p].pc \in {"g_path", "g_lock", "i_path", "i_lock", "r_path", "r_lock"}

=============================================================================
